---- MODULE Spec2Model ----
(***************************************************************************)
(* Entitlement / quota engine of the Insightball backend.                  *)
(*                                                                         *)
(* Committed store: one billing subject (a row of `users`), the `clubs`    *)
(* table and the `matches` table.  Every HTTP request runs in its own      *)
(* SQLAlchemy session: the authenticated user is loaded once, the handler  *)
(* works on that loaded object, and only db.commit() publishes its writes. *)
(* Time is counted in days; a calendar month is DaysPerMonth days long.    *)
(***************************************************************************)
EXTENDS Integers, Sequences, FiniteSets, TLC

----------------------------------------------------------------------------
(* Bounds of the model *)

DaysPerMonth == 3
MaxTime == 4
MaxRequests == 3

(* Program constants *)

TRIAL_MATCH_LIMIT == 1
TRIAL_DAY_LIMIT == 7
NoTime == -1

Null == "NULL"
Uid == "u1"
ClubIds == {Uid, "c1"}
Time == 0..MaxTime
Req == {"r1", "r2"}

PLAN_QUOTAS == [COACH |-> 4, CLUB |-> 12]

VARIABLES
    now,        \* datetime.utcnow(), in days
    user,       \* the committed row of the subject in `users`
    clubs,      \* ids of the committed rows of `clubs`
    matches,    \* matches[<<club_id, created_at>>]: number of committed rows
    req,        \* per request slot: the session of the request in flight
    started,    \* number of requests started so far
    lastEvent,  \* the billing event applied last, NoEvent after any other write
    repeated    \* the last delivery repeated the delivery just before it

vars == <<now, user, clubs, matches, req, started, lastEvent, repeated>>

----------------------------------------------------------------------------
(* Calendar and counting *)

get_current_month_range(t) ==
    LET start == (t \div DaysPerMonth) * DaysPerMonth
    IN  [start |-> start, end |-> start + DaysPerMonth]

RECURSIVE SumRows(_, _, _)
SumRows(m, club, S) ==
    IF S = {} THEN 0
    ELSE LET t == CHOOSE x \in S : TRUE
         IN  m[<<club, t>>] + SumRows(m, club, S \ {t})

CountMatches_after_start(m, club, start, end) ==
    SumRows(m, club, {t \in Time : t > start /\ t < end})

\* db.query(Match).filter(club_id == club, created_at >= start, created_at < end).count()
CountMatches(m, club, start, end) ==
    SumRows(m, club, {t \in Time : t >= start /\ t < end})

----------------------------------------------------------------------------
(* Sessions *)

NoRes == [outcome |-> "none", detail |-> "", exit |-> "", plan |-> "",
          quota |-> -1, used |-> -1, remaining |-> -1, resets_at |-> NoTime,
          at |-> NoTime]

NoUser == [id |-> Null, plan |-> Null, stripe_customer_id |-> Null,
           stripe_subscription_id |-> Null, club_id |-> Null,
           is_superadmin |-> FALSE, is_active |-> FALSE,
           trial_match_used |-> FALSE, trial_ends_at |-> NoTime,
           current_period_start |-> NoTime, current_period_end |-> NoTime]

IdleReq == [pc |-> "idle", kind |-> "", u |-> NoUser, dirty |-> {},
            newClub |-> FALSE, club |-> Null, res |-> NoRes]

flush_commits(committed, local) == local

\* db.flush(): the pending writes are sent to the store inside the open
\* transaction; nothing becomes visible to other sessions.
flush(committed, local) == committed

close_commits(visible, local) == local

\* get_db closes the session of a request that ends without db.commit():
\* the store keeps what is visible, the pending writes are dropped.
close(visible, local) == visible

ApplyAll(row, s) == s.u

\* The UPDATE a session issues for its user: only the attributes it set.
ApplyDirty(row, s) ==
    [f \in DOMAIN row |-> IF f \in s.dirty THEN s.u[f] ELSE row[f]]

\* The `clubs` table with the INSERT of the session's solo club.
NewClubs(s, cl) == IF s.newClub THEN cl \cup {s.club} ELSE cl

\* The user object as get_current_user loaded it, before the handler ran.
Loaded(s) ==
    [f \in DOMAIN s.u |->
        IF f \notin s.dirty THEN s.u[f]
        ELSE IF f = "trial_match_used" THEN FALSE
        ELSE IF f = "trial_ends_at" THEN NoTime
        ELSE Null]

get_solo_club_id_unattached(s, cl) ==
    IF s.u.club_id # Null
    THEN [s EXCEPT !.club = s.u.club_id]
    ELSE [s EXCEPT !.newClub = @ \/ (s.u.id \notin cl),
                   !.club = s.u.id]

\* _get_solo_club_id: the user's club, or the solo club whose id is the
\* user's id, created in the session when no such row is visible.
get_solo_club_id(s, cl) ==
    IF s.u.club_id # Null
    THEN [s EXCEPT !.club = s.u.club_id]
    ELSE [s EXCEPT !.u.club_id = s.u.id,
                   !.dirty = @ \cup {"club_id"},
                   !.newClub = @ \/ (s.u.id \notin cl),
                   !.club = s.u.id]

----------------------------------------------------------------------------
(* The quota gate: check_and_consume_quota *)

Result(outcome, detail, exit, plan, quota, used, remaining, resets_at, t) ==
    [outcome |-> outcome, detail |-> detail, exit |-> exit, plan |-> plan,
     quota |-> quota, used |-> used, remaining |-> remaining,
     resets_at |-> resets_at, at |-> t]

Allow(exit, t) == Result("Allow", "", exit, "", -1, -1, -1, NoTime, t)
Deny(detail, exit, t) == Result("Deny", detail, exit, "", -1, -1, -1, NoTime, t)

\* `if now > user.trial_ends_at`
trial_expired(t, ends) == t > ends

quota_reached_gt(count, quota) == count > quota

\* `if count >= quota`
quota_reached(count, quota) == count >= quota

\* The monthly branch of a plan (CLUB: lines 90-111, COACH: lines 114-140).
monthly_quota(s, plan, t, cl, m) ==
    LET quota == PLAN_QUOTAS[plan]
        range == get_current_month_range(t)
        s1    == get_solo_club_id(s, cl)
        count == CountMatches(m, s1.club, range.start, range.end)
    IN  IF quota_reached(count, quota)
        THEN [s |-> s1, res |-> Result("Deny", "QUOTA_EXCEEDED", plan, plan,
                                       quota, count, -1, range.end, t)]
        ELSE [s |-> s1, res |-> Result("Allow", "", plan, plan,
                                       quota, count, -1, range.end, t)]

trial_branch_window_only(s, t) ==
    LET s1 == IF s.u.trial_ends_at = NoTime
              THEN [s EXCEPT !.u.trial_ends_at = t + TRIAL_DAY_LIMIT,
                             !.dirty = @ \cup {"trial_ends_at"}]
              ELSE s
    IN  IF trial_expired(t, s1.u.trial_ends_at)
        THEN [s |-> s1, res |-> Deny("TRIAL_EXPIRED", "trial", t)]
        ELSE [s |-> [s1 EXCEPT !.u.trial_match_used = TRUE,
                               !.dirty = @ \cup {"trial_match_used"}],
              res |-> Allow("trial", t)]

\* The trial branch (lines 63-87): no subscription id on the user.
trial_branch(s, t) ==
    LET s1 == IF s.u.trial_ends_at = NoTime
              THEN [s EXCEPT !.u.trial_ends_at = t + TRIAL_DAY_LIMIT,
                             !.dirty = @ \cup {"trial_ends_at"}]
              ELSE s
    IN  IF s1.u.trial_match_used
        THEN [s |-> s1, res |-> Deny("TRIAL_EXHAUSTED", "trial", t)]
        ELSE IF trial_expired(t, s1.u.trial_ends_at)
        THEN [s |-> s1, res |-> Deny("TRIAL_EXPIRED", "trial", t)]
        ELSE [s |-> [s1 EXCEPT !.u.trial_match_used = TRUE,
                               !.dirty = @ \cup {"trial_match_used"}],
              res |-> Allow("trial", t)]

paid_or_trial(s, t, cl, m) ==
    IF s.u.stripe_subscription_id = Null
    THEN trial_branch(s, t)
    ELSE IF s.u.plan = "CLUB"
    THEN monthly_quota(s, "CLUB", t, cl, m)
    ELSE IF s.u.plan = "COACH"
    THEN monthly_quota(s, "COACH", t, cl, m)
    ELSE [s |-> s, res |-> Allow("end", t)]

check_plan_first(s, t, cl, m) ==
    IF s.u.plan = Null
    THEN [s |-> s, res |-> Deny("NO_ACTIVE_PLAN", "plan", t)]
    ELSE IF s.u.is_superadmin
    THEN [s |-> s, res |-> Allow("superadmin", t)]
    ELSE paid_or_trial(s, t, cl, m)

no_active_plan_with_card(u) == u.plan = Null /\ u.stripe_subscription_id # Null

\* `if not user.plan`
no_active_plan(u) == u.plan = Null

check_and_consume_quota(s, t, cl, m) ==
    IF s.u.is_superadmin
    THEN [s |-> s, res |-> Allow("superadmin", t)]
    ELSE IF no_active_plan(s.u)
    THEN [s |-> s, res |-> Deny("NO_ACTIVE_PLAN", "plan", t)]
    ELSE paid_or_trial(s, t, cl, m)

Max(a, b) == IF a >= b THEN a ELSE b

\* GET /quota
get_quota_status(s, t, cl, m) ==
    IF s.u.stripe_subscription_id = Null
    THEN [s |-> s,
          res |-> Result("Status", "", "trial", "TRIAL", TRIAL_MATCH_LIMIT,
                         IF s.u.trial_match_used THEN 1 ELSE 0,
                         IF s.u.trial_match_used THEN 0 ELSE 1, NoTime, t)]
    ELSE LET plan  == IF s.u.plan = "CLUB" THEN "CLUB" ELSE "COACH"
             quota == PLAN_QUOTAS[plan]
             range == get_current_month_range(t)
             s1    == get_solo_club_id(s, cl)
             used  == CountMatches(m, s1.club, range.start, range.end)
         IN  [s |-> s1,
              res |-> Result("Status", "", plan, plan, quota, used,
                             Max(0, quota - used), range.end, t)]

----------------------------------------------------------------------------
(* Billing events: POST /webhook *)

Event(type, user_id, customer, plan, subscription, trial_end, status, reason) ==
    [type |-> type, user_id |-> user_id, customer |-> customer, plan |-> plan,
     subscription |-> subscription, trial_end |-> trial_end,
     status |-> status, billing_reason |-> reason]

NoEvent == Event(Null, Null, Null, "", Null, NoTime, "", "")

\* trial_end of the provider's subscription, as Subscription.retrieve returns
\* it (NoTime: no trial, or the lookup failed and was swallowed).
ProviderTrialEnds == {NoTime, 1, MaxTime + 1}

Customers == {"cus_1", "cus_x"}

Events ==
    {Event("checkout.session.completed", i, "cus_1", p, "sub_1", te, "", "") :
        i \in {Uid, "u_x"}, p \in {"COACH", "CLUB", ""}, te \in ProviderTrialEnds}
    \cup {Event("customer.subscription.trial_will_end", Null, c, "", "sub_1", te, "", "") :
        c \in Customers, te \in {MaxTime + 1}}
    \cup {Event("invoice.payment_succeeded", Null, c, "", "sub_1", NoTime, "", br) :
        c \in Customers, br \in {"subscription_cycle", "subscription_create", "manual"}}
    \cup {Event("invoice.payment_failed", Null, c, "", "sub_1", NoTime, "", "") :
        c \in Customers}
    \cup {Event("customer.subscription.deleted", Null, c, "", "sub_1", NoTime, "", "") :
        c \in Customers}
    \cup {Event("customer.subscription.updated", Null, c, p, "sub_1", NoTime, st, "") :
        c \in Customers, p \in {"COACH", "CLUB", ""},
        st \in {"active", "trialing", "past_due"}}

by_customer_or_first(u, customer) == u.stripe_customer_id # Null

\* db.query(User).filter(User.stripe_customer_id == customer).first()
by_customer(u, customer) == u.stripe_customer_id # Null /\ u.stripe_customer_id = customer

checkout_completed(u, e) ==
    IF u.id # e.user_id THEN u
    ELSE [u EXCEPT
            !.plan = IF e.plan \in {"COACH", "CLUB"} THEN e.plan ELSE "COACH",
            !.stripe_subscription_id = e.subscription,
            !.stripe_customer_id = IF e.customer # Null THEN e.customer ELSE @,
            !.is_active = TRUE,
            !.trial_ends_at = IF e.subscription # Null /\ e.trial_end # NoTime
                              THEN e.trial_end ELSE @]

payment_succeeded_any_reason(u, e) ==
    IF by_customer(u, e.customer) THEN [u EXCEPT !.is_active = TRUE] ELSE u

payment_succeeded(u, e) ==
    IF e.billing_reason \in {"subscription_cycle", "subscription_create"}
       /\ by_customer(u, e.customer)
    THEN [u EXCEPT !.is_active = TRUE]
    ELSE u

payment_failed_revokes(u, e) ==
    IF by_customer(u, e.customer)
    THEN [u EXCEPT !.is_active = FALSE, !.stripe_subscription_id = Null]
    ELSE u

payment_failed_toggle(u, e) ==
    IF by_customer(u, e.customer) THEN [u EXCEPT !.is_active = ~@] ELSE u

payment_failed(u, e) ==
    IF by_customer(u, e.customer) THEN [u EXCEPT !.is_active = FALSE] ELSE u

subscription_deleted_resets_trial(u, e) ==
    IF by_customer(u, e.customer)
    THEN [u EXCEPT !.is_active = FALSE, !.stripe_subscription_id = Null,
                   !.trial_ends_at = NoTime]
    ELSE u

subscription_deleted(u, e) ==
    IF by_customer(u, e.customer)
    THEN [u EXCEPT !.is_active = FALSE, !.stripe_subscription_id = Null]
    ELSE u

subscription_updated_active_only(u, e) ==
    IF by_customer(u, e.customer)
    THEN [u EXCEPT !.is_active = e.status = "active",
                   !.plan = IF e.plan \in {"COACH", "CLUB"} THEN e.plan ELSE @]
    ELSE u

subscription_updated(u, e) ==
    IF by_customer(u, e.customer)
    THEN [u EXCEPT !.is_active = e.status \in {"active", "trialing"},
                   !.plan = IF e.plan \in {"COACH", "CLUB"} THEN e.plan ELSE @]
    ELSE u

\* The answer of POST /webhook once the event is verified: every branch
\* falls through to the final return.
webhook_response(u, e) == [status |-> "success"]

stripe_webhook(u, e) ==
    IF e.type = "checkout.session.completed" THEN checkout_completed(u, e)
    ELSE IF e.type = "customer.subscription.trial_will_end" THEN u
    ELSE IF e.type = "invoice.payment_succeeded" THEN payment_succeeded(u, e)
    ELSE IF e.type = "invoice.payment_failed" THEN payment_failed(u, e)
    ELSE IF e.type = "customer.subscription.deleted" THEN subscription_deleted(u, e)
    ELSE IF e.type = "customer.subscription.updated" THEN subscription_updated(u, e)
    ELSE u

----------------------------------------------------------------------------
(* Initial states *)

InitNow == DaysPerMonth

\* No route writes current_period_start / current_period_end: the rows the
\* routes produce have none.
InitUsers ==
    {[id |-> Uid, plan |-> p, stripe_customer_id |-> IF sub = Null THEN Null ELSE "cus_1",
      stripe_subscription_id |-> sub, club_id |-> c, is_superadmin |-> sa,
      is_active |-> TRUE, trial_match_used |-> used, trial_ends_at |-> te,
      current_period_start |-> NoTime, current_period_end |-> NoTime] :
        p \in {Null, "COACH", "CLUB"}, sub \in {Null, "sub_1"},
        c \in {Null, Uid, "c1"}, sa \in BOOLEAN, used \in BOOLEAN,
        te \in {NoTime, InitNow, InitNow + 1}}

\* Rows of `matches` the tenant may already hold: none, or one short of or at
\* the plan's quota, all created on the same day.
InitCounts(u) ==
    IF u.plan = Null THEN {0, 1}
    ELSE {0, PLAN_QUOTAS[u.plan] - 1, PLAN_QUOTAS[u.plan]}

\* The user's club when it has one; a user detached from its club (club_id
\* reset to NULL) may still have its solo club and that club's matches.
InitStore(u, solo, n, t0) ==
    LET tenant == IF u.club_id # Null THEN u.club_id ELSE Uid
        has    == u.club_id # Null \/ solo
    IN  /\ clubs = {"c1"} \cup (IF has THEN {tenant} ELSE {})
        /\ matches = [k \in ClubIds \X Time |->
                        IF has /\ k = <<tenant, t0>> THEN n
                        ELSE IF k = <<"c1", InitNow>> /\ tenant # "c1" THEN 1
                        ELSE 0]

InitRequests ==
    /\ req = [r \in Req |-> IdleReq]
    /\ started = 0
    /\ lastEvent = NoEvent
    /\ repeated = FALSE

Init ==
    /\ now = InitNow
    /\ user \in {u \in InitUsers : u.trial_match_used => u.trial_ends_at # NoTime}
    /\ \E solo \in BOOLEAN, n \in InitCounts(user), t0 \in {InitNow - 1, InitNow} :
          InitStore(user, solo, n, t0)
    /\ InitRequests

----------------------------------------------------------------------------
(* Requests *)

\* A request starts: get_current_user loads the user row into the request's
\* session.  The second session is used only while the first is in flight.
Begin(r) ==
    /\ req[r].pc \in {"idle", "done", "failed"}
    /\ r = "r1" \/ req["r1"].pc \in {"loaded", "staged"}
    /\ started < MaxRequests
    /\ started' = started + 1

Session(k) == [IdleReq EXCEPT !.pc = "loaded", !.kind = k, !.u = user]

Load(r) ==
    /\ Begin(r)
    /\ req' = [req EXCEPT ![r] = Session("create")]
    /\ UNCHANGED <<now, user, clubs, matches, lastEvent, repeated>>

\* POST /matches up to db.add(match): the gate, then the tenant.  A denial
\* raises, the session is closed and its flushed writes are rolled back.
CreateBody(r) ==
    /\ req[r].pc = "loaded" /\ req[r].kind = "create"
    /\ LET g  == check_and_consume_quota(req[r], now, clubs, matches)
           s2 == IF g.res.outcome = "Allow" THEN get_solo_club_id(g.s, clubs) ELSE g.s
       IN  /\ req' = [req EXCEPT ![r] =
                        [s2 EXCEPT !.pc = IF g.res.outcome = "Allow" THEN "staged" ELSE "done",
                                   !.res = g.res]]
           /\ user' = IF g.res.outcome = "Allow"
                      THEN flush(user, ApplyDirty(user, s2))
                      ELSE close(flush(user, ApplyDirty(user, s2)), ApplyDirty(user, s2))
           /\ clubs' = IF g.res.outcome = "Allow"
                       THEN flush(clubs, NewClubs(s2, clubs))
                       ELSE close(flush(clubs, NewClubs(s2, clubs)), NewClubs(s2, clubs))
    /\ UNCHANGED <<now, matches, started, lastEvent, repeated>>

Commit_partial(r, ok) ==
    /\ req[r].pc = "staged"
    /\    IF ~ok \/ (req[r].newClub /\ req[r].club \in clubs)
          THEN /\ req' = [req EXCEPT ![r].pc = "failed"]
               /\ user' = ApplyDirty(user, req[r])
               /\ UNCHANGED <<clubs, matches>>
          ELSE /\ user' = ApplyDirty(user, req[r])
               /\ clubs' = NewClubs(req[r], clubs)
               /\ matches' = [matches EXCEPT ![<<req[r].club, now>>] = @ + 1]
               /\ req' = [req EXCEPT ![r].pc = "done"]
    /\ UNCHANGED <<now, started, lastEvent, repeated>>

\* db.commit() of POST /matches, one transaction: the user's UPDATE, the
\* solo club's INSERT and the match's INSERT with created_at = utcnow().
\* It fails as a whole when the store fails (ok = FALSE) or when a row with
\* the solo club's id was committed meanwhile; the error is not caught.
Commit(r, ok) ==
    /\ req[r].pc = "staged"
    /\    IF ~ok \/ (req[r].newClub /\ req[r].club \in clubs)
          THEN /\ req' = [req EXCEPT ![r].pc = "failed"]
               /\ UNCHANGED <<user, clubs, matches>>
          ELSE /\ user' = ApplyDirty(user, req[r])
               /\ clubs' = NewClubs(req[r], clubs)
               /\ matches' = [matches EXCEPT ![<<req[r].club, now>>] = @ + 1]
               /\ req' = [req EXCEPT ![r].pc = "done"]
    /\ UNCHANGED <<now, started, lastEvent, repeated>>

\* GET /matches/quota: never commits.
QuotaStatus(r) ==
    /\ Begin(r)
    /\ LET q == get_quota_status(Session("quota"), now, clubs, matches)
       IN  /\ req' = [req EXCEPT ![r] = [q.s EXCEPT !.pc = "done", !.res = q.res]]
           /\ user' = close(flush(user, ApplyDirty(user, q.s)), ApplyDirty(user, q.s))
           /\ clubs' = close(flush(clubs, NewClubs(q.s, clubs)), NewClubs(q.s, clubs))
    /\ UNCHANGED <<now, matches, lastEvent, repeated>>

\* DELETE /matches/{id} for a match created on day t: 404 when the tenant
\* has no such row, 409 while it is being processed, else delete and commit.
DeleteMatch(r, t, processing) ==
    /\ Begin(r)
    /\ LET s1 == get_solo_club_id(Session("delete"), clubs)
       IN  IF matches[<<s1.club, t>>] = 0 \/ s1.newClub
           THEN /\ req' = [req EXCEPT ![r] = [s1 EXCEPT !.pc = "done",
                               !.res = Result("NotFound", "", "", "", -1, -1, -1, NoTime, now)]]
                /\ UNCHANGED <<user, clubs, matches>>
           ELSE IF processing
           THEN /\ req' = [req EXCEPT ![r] = [s1 EXCEPT !.pc = "done",
                               !.res = Result("Conflict", "", "", "", -1, -1, -1, NoTime, now)]]
                /\ UNCHANGED <<user, clubs, matches>>
           ELSE /\ req' = [req EXCEPT ![r] = [s1 EXCEPT !.pc = "done",
                               !.res = Result("Deleted", "", "", "", -1, -1, -1, t, now)]]
                /\ user' = ApplyDirty(user, s1)
                /\ matches' = [matches EXCEPT ![<<s1.club, t>>] = @ - 1]
                /\ UNCHANGED clubs
    /\ UNCHANGED <<now, lastEvent, repeated>>

\* POST /webhook with a verified event.
Webhook(e) ==
    /\ user' = stripe_webhook(user, e)
    /\ lastEvent' = e
    /\ repeated' = (e = lastEvent)
    /\ UNCHANGED <<now, clubs, matches, req, started>>

Tick ==
    /\ now < MaxTime
    /\ now' = now + 1
    /\ UNCHANGED <<user, clubs, matches, req, started, lastEvent, repeated>>

Next ==
    \/ \E r \in Req : Load(r)
    \/ \E r \in Req : CreateBody(r)
    \/ \E r \in Req : Commit(r, TRUE)
    \/ \E r \in Req : QuotaStatus(r)
    \/ \E r \in Req, t \in Time, p \in BOOLEAN : DeleteMatch(r, t, p)
    \/ Tick

\* The quota gate: requests against the store, no billing event in flight.
Spec == Init /\ [][Next]_vars

InitIngest ==
    /\ now = InitNow
    /\ user \in {u \in InitUsers : /\ u.trial_match_used => u.trial_ends_at # NoTime
                                    /\ u.club_id = Null}
    /\ InitStore(user, FALSE, 0, InitNow)
    /\ InitRequests

NextIngest ==
    \/ \E e \in Events : Webhook(e)
    \/ Tick

\* The billing event ingestor: deliveries of webhook events to the store.
SpecIngest == InitIngest /\ [][NextIngest]_vars

----------------------------------------------------------------------------
(* Account operations: confirm-plan, trial-status, cancel-subscription and
   the admin's plan update *)

\* Ids the provider gives to the subscriptions it creates or lists.
SubIds == {"sub_1", "sub_2"}

\* `trial_period_days` of the subscription confirm_plan creates.
trial_period_days == 7

\* A request to an account route starts; it is not a billing delivery.
BeginAccount ==
    /\ started < MaxRequests
    /\ started' = started + 1
    /\ lastEvent' = NoEvent
    /\ repeated' = FALSE

\* confirm_plan(data) when Subscription.create answered with id sid; the
\* provider grants the trial only to a COACH who never had a trial end.
confirm_plan(u, plan, sid, t) ==
    LET trial_end == IF plan = "COACH" /\ u.trial_ends_at = NoTime
                     THEN t + trial_period_days ELSE NoTime
    IN  [u EXCEPT !.plan = plan,
                  !.stripe_subscription_id = sid,
                  !.is_active = TRUE,
                  !.trial_ends_at = IF trial_end # NoTime THEN trial_end ELSE @]

\* POST /confirm-plan: 400 without customer id or on a provider error.
ConfirmPlan(plan, sid, ok) ==
    /\ user' = IF user.stripe_customer_id # Null /\ ok
               THEN confirm_plan(user, plan, sid, now) ELSE user
    /\ BeginAccount
    /\ UNCHANGED <<now, clubs, matches, req>>

\* The write of get_trial_status: without a usable subscription id on the
\* user, the first subscription the provider lists for the customer is
\* stored when it is active or trialing (listed = Null: none is).
trial_status_sync(u, retrieved, listed) ==
    IF /\ u.stripe_subscription_id = Null \/ ~retrieved
       /\ u.stripe_customer_id # Null
       /\ listed # Null
    THEN [u EXCEPT !.stripe_subscription_id = listed]
    ELSE u

\* GET /trial-status
TrialStatus(retrieved, listed) ==
    /\ user' = trial_status_sync(user, retrieved, listed)
    /\ BeginAccount
    /\ UNCHANGED <<now, clubs, matches, req>>

\* The write of cancel_subscription: the trialing subscription the provider
\* lists is stored when the user has no subscription id.
cancel_sync(u, listed) ==
    IF u.stripe_subscription_id = Null /\ u.stripe_customer_id # Null /\ listed # Null
    THEN [u EXCEPT !.stripe_subscription_id = listed]
    ELSE u

\* POST /cancel-subscription
CancelSubscription(listed) ==
    /\ user' = cancel_sync(user, listed)
    /\ BeginAccount
    /\ UNCHANGED <<now, clubs, matches, req>>

\* The labels of the column type Enum(PlanType).
PlanType == {"COACH", "CLUB"}

admin_update_user_plan_any_label(u, plan, club) ==
    [u EXCEPT !.plan = plan,
              !.club_id = IF plan \in {"CLUB", "CLUB_PRO"} THEN club ELSE Null]

\* PATCH /admin/users/{id}/plan with an existing club id for the club plans.
\* The plan is assigned as the upper-cased string of the body; db.commit()
\* sends it to the enum column, which takes only the labels of PlanType, so
\* the commit of any other label fails and the row stays as it was.
admin_update_user_plan(u, plan, club) ==
    IF plan \notin PlanType
    THEN u
    ELSE [u EXCEPT !.plan = plan,
                   !.club_id = IF plan \in {"CLUB", "CLUB_PRO"} THEN club ELSE Null]

AdminUpdateUserPlan(plan, club) ==
    /\ user' = admin_update_user_plan(user, plan, club)
    /\ BeginAccount
    /\ UNCHANGED <<now, clubs, matches, req>>

\* POST /webhook, counted among the requests the account receives.
Delivery(e) ==
    /\ started < MaxRequests
    /\ started' = started + 1
    /\ user' = stripe_webhook(user, e)
    /\ lastEvent' = e
    /\ repeated' = (e = lastEvent)
    /\ UNCHANGED <<now, clubs, matches, req>>

\* Deliveries about the subject's own customer and subscription.
AccountEvents ==
    {e \in Events :
        /\ e.user_id \in {Uid, Null} /\ e.customer = "cus_1"
        /\ e.billing_reason \in {"", "subscription_cycle"}
        /\ e.type = "checkout.session.completed"
              => (e.plan # "" /\ e.trial_end \in {NoTime, MaxTime + 1})
        /\ e.type = "customer.subscription.updated"
              => (e.plan # "COACH" /\ e.status # "trialing")}

InitAccount ==
    /\ now = InitNow
    /\ user \in {u \in InitUsers : /\ u.trial_match_used => u.trial_ends_at # NoTime
                                    /\ u.club_id = Null
                                    /\ u.plan = "COACH"
                                    /\ ~u.is_superadmin}
    /\ InitStore(user, FALSE, 0, InitNow)
    /\ InitRequests

NextAccount ==
    \/ \E r \in Req : Load(r)
    \/ \E r \in Req : CreateBody(r)
    \/ \E r \in Req : Commit(r, TRUE)
    \/ \E e \in AccountEvents : Delivery(e)
    \/ \E p \in {"COACH", "CLUB"}, sid \in SubIds, ok \in BOOLEAN : ConfirmPlan(p, sid, ok)
    \/ \E retrieved \in BOOLEAN, listed \in SubIds \cup {Null} : TrialStatus(retrieved, listed)
    \/ \E listed \in SubIds \cup {Null} : CancelSubscription(listed)
    \/ \E p \in {"COACH", "CLUB", "CLUB_PRO"} : AdminUpdateUserPlan(p, "c1")

\* The account: up to MaxRequests requests, among them create-match
\* requests, billing deliveries and the other writers of the user row.
SpecAccount == InitAccount /\ [][NextAccount]_vars

----------------------------------------------------------------------------
(* Rows that carry a billing period *)

\* current_period_start / current_period_end as a writer outside the routes
\* may have left them: both absent, only the start, a period around now, a
\* period that ended at now.
InitPeriods ==
    {<<NoTime, NoTime>>, <<InitNow - 1, NoTime>>,
     <<InitNow - 1, InitNow + 2>>, <<InitNow - 2, InitNow>>}

InitPeriod ==
    /\ now = InitNow
    /\ \E u \in InitUsers, p \in InitPeriods :
          /\ u.stripe_subscription_id # Null /\ u.plan # Null
          /\ ~u.is_superadmin
          /\ ~u.trial_match_used /\ u.trial_ends_at = NoTime
          /\ user = [u EXCEPT !.current_period_start = p[1],
                              !.current_period_end = p[2]]
    /\ \E solo \in BOOLEAN, n \in InitCounts(user), t0 \in {InitNow - 1, InitNow} :
          InitStore(user, solo, n, t0)
    /\ InitRequests

\* The gate and quota-status for subscribed subjects whose rows may carry a
\* billing period.
SpecPeriod == InitPeriod /\ [][Next]_vars

----------------------------------------------------------------------------
(* A burst of create-match requests at the quota boundary *)

\* Sessions of the requests of a burst.
Burst == Req \cup {"r3"}

\* A subscribed subject with no trial whose tenant is one record short of
\* the plan's quota, and no request in flight.
InitBurst ==
    /\ now = InitNow
    /\ user \in {u \in InitUsers : /\ u.stripe_subscription_id # Null
                                    /\ u.plan # Null
                                    /\ ~u.is_superadmin
                                    /\ ~u.trial_match_used
                                    /\ u.trial_ends_at = NoTime}
    /\ \E solo \in BOOLEAN : InitStore(user, solo, PLAN_QUOTAS[user.plan] - 1, InitNow)
    /\ req = [r \in Burst |-> IdleReq]
    /\ started = 0
    /\ lastEvent = NoEvent
    /\ repeated = FALSE

NextBurst ==
    \/ \E r \in Burst : Load(r)
    \/ \E r \in Burst : CreateBody(r)
    \/ \E r \in Burst : Commit(r, TRUE)

\* POST /matches from up to three sessions at once.
SpecBurst == InitBurst /\ [][NextBurst]_vars

----------------------------------------------------------------------------
(* Create-match requests against a store whose commit may fail *)

\* A subject the trial branch decides: a plan, no subscription id.
InitTrial ==
    /\ now = InitNow
    /\ user \in {u \in InitUsers : /\ u.trial_match_used => u.trial_ends_at # NoTime
                                    /\ u.stripe_subscription_id = Null
                                    /\ u.plan # Null
                                    /\ ~u.is_superadmin}
    /\ \E solo \in BOOLEAN, n \in {0, 1} : InitStore(user, solo, n, InitNow)
    /\ InitRequests

NextStore ==
    \/ \E r \in Req : Load(r)
    \/ \E r \in Req : CreateBody(r)
    \/ \E r \in Req, ok \in BOOLEAN : Commit(r, ok)
    \/ Tick

\* POST /matches of a trial subject; db.commit() succeeds or fails.
SpecStore == InitTrial /\ [][NextStore]_vars

----------------------------------------------------------------------------
(* Requests for a provider subscription: confirm-plan and
   create-checkout-session, each in a session of its own *)

\* A request uses a free session slot; the slot keeps what it asked of the
\* provider.
BeginSlot(r) ==
    /\ req[r].pc = "idle"
    /\ started < MaxRequests
    /\ started' = started + 1

\* What the request asked of the provider: a subscription (or a checkout
\* session for one) for a plan, with or without `trial_period_days`.
Asked(kind, plan, trial, t) ==
    Result("Asked", IF trial THEN "trial_period_days" ELSE "", kind, plan,
           -1, -1, -1, NoTime, t)

\* POST /confirm-plan starts: get_current_active_user loads the user.
LoadConfirm(r) ==
    /\ BeginSlot(r)
    /\ req' = [req EXCEPT ![r] = Session("confirm")]
    /\ UNCHANGED <<now, user, clubs, matches, lastEvent, repeated>>

\* POST /confirm-plan from Subscription.create to db.commit(), on the user
\* object the request loaded.
ConfirmSubscribe(r, plan, sid) ==
    /\ req[r].pc = "loaded" /\ req[r].kind = "confirm"
    /\ IF req[r].u.stripe_customer_id = Null
       THEN /\ req' = [req EXCEPT ![r].pc = "done",
                                  ![r].res = Deny("No customer ID", "confirm", now)]
            /\ UNCHANGED user
       ELSE LET trial == plan = "COACH" /\ req[r].u.trial_ends_at = NoTime
                s     == [req[r] EXCEPT
                             !.u = confirm_plan(req[r].u, plan, sid, now),
                             !.dirty = {"plan", "stripe_subscription_id", "is_active"}
                                       \cup (IF trial THEN {"trial_ends_at"} ELSE {})]
            IN  /\ req' = [req EXCEPT ![r] =
                             [s EXCEPT !.pc = "done",
                                       !.res = Asked("confirm", plan, trial, now)]]
                /\ user' = ApplyDirty(user, s)
    /\ UNCHANGED <<now, clubs, matches, started, lastEvent, repeated>>

\* POST /create-checkout-session: the customer is created and committed
\* when missing, the CLUB plan is refused, and the session is created with
\* a trial period unless the user has a trial end.
CheckoutSession(r, plan) ==
    /\ BeginSlot(r)
    /\ LET s0 == Session("checkout")
           s  == IF s0.u.stripe_customer_id = Null
                 THEN [s0 EXCEPT !.u.stripe_customer_id = "cus_1",
                                 !.dirty = {"stripe_customer_id"}]
                 ELSE s0
       IN  /\ user' = ApplyDirty(user, s)
           /\ req' = [req EXCEPT ![r] =
                        [s EXCEPT !.pc = "done",
                                  !.res = IF plan # "COACH"
                                          THEN Deny("CLUB sur devis", "checkout", now)
                                          ELSE Asked("checkout", plan,
                                                     s.u.trial_ends_at = NoTime, now)]]
    /\ UNCHANGED <<now, clubs, matches, lastEvent, repeated>>

\* A user who has a plan and no subscription yet.
InitGrant ==
    /\ now = InitNow
    /\ user \in {u \in InitUsers : /\ u.trial_match_used => u.trial_ends_at # NoTime
                                    /\ u.stripe_subscription_id = Null
                                    /\ u.plan # Null
                                    /\ u.club_id = Null
                                    /\ ~u.is_superadmin}
    /\ InitStore(user, FALSE, 0, InitNow)
    /\ InitRequests

NextGrant ==
    \/ \E r \in Req : LoadConfirm(r)
    \/ \E r \in Req, p \in {"COACH", "CLUB"}, sid \in SubIds : ConfirmSubscribe(r, p, sid)
    \/ \E r \in Req, p \in {"COACH", "CLUB"} : CheckoutSession(r, p)
    \/ \E e \in AccountEvents : Delivery(e)

\* Subscription requests and billing deliveries of one user.
SpecGrant == InitGrant /\ [][NextGrant]_vars

----------------------------------------------------------------------------
(* Properties *)

\* The tenant whose records a subject's requests are counted against.
Tenant(u) == IF u.club_id # Null THEN u.club_id ELSE u.id

\* Records of a club created in the calendar month of day t.
Used(m, club, t) ==
    SumRows(m, club, {d \in Time : d \div DaysPerMonth = t \div DaysPerMonth})

\* Step of request r in which the gate decides.
GateStep(r) == req[r].pc = "loaded" /\ req'[r].pc # "loaded"

\* A request whose match has been committed.
Created(r) == req[r].kind = "create" /\ req[r].pc = "done" /\ req[r].res.outcome = "Allow"

\* A subscribed, non-superadmin subject with a plan and no open trial window.
PaidSubject(u, t) ==
    /\ ~u.is_superadmin
    /\ u.plan \in {"COACH", "CLUB"}
    /\ u.stripe_subscription_id # Null
    /\ u.trial_ends_at = NoTime \/ u.trial_ends_at <= t

\* C1: of the concurrent create-match requests of one subject whose trial
\* is unused and open, at most one is admitted by the trial rule and
\* creates a record.
C1_TrialOneShot ==
    Cardinality({r \in Req : Created(r) /\ req[r].res.exit = "trial"}) <= 1

\* C2: when the tenant of a subscribed subject without an open trial holds
\* at least the plan's ceiling of records in the current window, the gate
\* denies with QUOTA_EXCEEDED, reports used = that count and quota = the
\* ceiling, and the request creates no record.
C2_QuotaCeiling ==
    [][\A r \in Req :
        (/\ GateStep(r)
         /\ PaidSubject(req[r].u, now)
         /\ Used(matches, Tenant(req[r].u), now) >= PLAN_QUOTAS[req[r].u.plan])
        => (/\ req'[r].res.outcome = "Deny"
            /\ req'[r].res.detail = "QUOTA_EXCEEDED"
            /\ req'[r].res.used = Used(matches, Tenant(req[r].u), now)
            /\ req'[r].res.quota = PLAN_QUOTAS[req[r].u.plan]
            /\ req'[r].pc = "done"
            /\ matches' = matches)]_vars

\* C2 witness: a COACH subject holding exactly 4 records was denied the 5th
\* with used = 4 and quota = 4.
C2_Witness ==
    \E r \in Req :
        /\ req[r].kind = "create" /\ req[r].pc = "done"
        /\ req[r].u.plan = "COACH" /\ ~req[r].u.is_superadmin
        /\ req[r].res.detail = "QUOTA_EXCEEDED"
        /\ req[r].res.used = 4 /\ req[r].res.quota = 4

\* C3: the gate admits a superadmin whatever its plan, subscription, trial
\* state and usage, without setting trial_match_used and without counting.
C3_SuperadminBypass ==
    \A r \in Req :
        (req[r].kind = "create" /\ req[r].pc \in {"staged", "done", "failed"}
         /\ req[r].u.is_superadmin)
        => (/\ req[r].res.outcome = "Allow"
            /\ "trial_match_used" \notin req[r].dirty
            /\ "trial_ends_at" \notin req[r].dirty
            /\ req[r].res.used = -1)

\* C3 witness: a superadmin with no plan and a used, expired trial created
\* a further record for its tenant.
C3_Witness ==
    \E r \in Req :
        /\ Created(r) /\ req[r].u.is_superadmin /\ req[r].u.plan = Null
        /\ req[r].u.trial_match_used /\ req[r].u.trial_ends_at <= req[r].res.at
        /\ Used(matches, Tenant(req[r].u), now) > 1

\* C4: the trial rule admits only strictly before trial_ends_at.
C4_TrialExpiryBoundary ==
    \A r \in Req :
        (req[r].kind = "create" /\ req[r].res.outcome = "Allow"
         /\ req[r].res.exit = "trial")
        => req[r].res.at < req[r].u.trial_ends_at

\* C5: once trial_ends_at is set, a CheckoutCompleted delivery leaves it as
\* it is.
C5_NoDoubleGrant ==
    [][(/\ lastEvent'.type = "checkout.session.completed"
        /\ user' = stripe_webhook(user, lastEvent')
        /\ user.trial_ends_at # NoTime)
       => user'.trial_ends_at = user.trial_ends_at]_vars

\* C6: after the trial has expired, the count the paid-period rule applies
\* covers only the records created in [max(window start, trial_ends_at),
\* window end).
C6_TrialCutoff ==
    [][\A r \in Req :
        (GateStep(r) /\ PaidSubject(req[r].u, now))
        => LET range  == get_current_month_range(now)
               cutoff == IF req[r].u.trial_ends_at = NoTime THEN range.start
                         ELSE req[r].u.trial_ends_at
           IN  req'[r].res.used =
                 SumRows(matches, Tenant(req[r].u),
                         {d \in Time : /\ d >= range.start /\ d >= cutoff
                                       /\ d < range.end})]_vars

\* C7: delivering a billing event a second time right after the first
\* leaves the subject as the first delivery left it, for every event type.
C7_IdempotentEvent ==
    [][/\ (repeated' /\ ~repeated) => user' = user
       /\ (<<lastEvent, repeated>>' # <<lastEvent, repeated>>)
            => stripe_webhook(user', lastEvent') = user']_vars

\* C7 witness: a CheckoutCompleted carrying a trial end, for the known
\* subject, has been delivered twice in a row.
C7_Witness ==
    /\ repeated
    /\ lastEvent.type = "checkout.session.completed"
    /\ lastEvent.user_id = user.id
    /\ lastEvent.trial_end # NoTime
    /\ user.trial_ends_at = lastEvent.trial_end

\* C8: for a subscribed subject with no trial window whose window holds
\* ceiling-1 records, quota-status reports used = ceiling-1 and remaining
\* = 1, the gate admits, the committed record raises the count by one, and
\* at the ceiling the gate denies with QUOTA_EXCEEDED.
C8_PaidPeriodScenario ==
    [][\A r \in Req :
        LET u    == IF req[r].pc = "loaded" THEN req[r].u ELSE user
            used == Used(matches, Tenant(u), now)
            q    == IF u.plan \in {"COACH", "CLUB"} THEN PLAN_QUOTAS[u.plan] ELSE 0
            paid == PaidSubject(u, now) /\ u.trial_ends_at = NoTime
        IN  /\ (req'[r] # req[r] /\ req'[r].kind = "quota" /\ paid /\ used = q - 1)
                => (req'[r].res.used = q - 1 /\ req'[r].res.remaining = 1
                    /\ req'[r].res.quota = q)
            /\ (GateStep(r) /\ paid /\ used = q - 1)
                => (req'[r].res.outcome = "Allow" /\ req'[r].pc = "staged")
            /\ (req[r].pc = "staged" /\ req'[r].pc = "done")
                => Used(matches', req[r].club, now) = Used(matches, req[r].club, now) + 1
            /\ (GateStep(r) /\ paid /\ used = q)
                => (req'[r].res.outcome = "Deny"
                    /\ req'[r].res.detail = "QUOTA_EXCEEDED")]_vars

\* C8 witness: the tenant held ceiling-1 records and quota-status reported
\* remaining = 1, a further record was created on a later day of the
\* window, and the next request was denied at used = ceiling.
C8_Witness ==
    \E r \in Req, q \in Req :
        /\ req[r].kind = "create" /\ req[r].pc = "done"
        /\ PaidSubject(req[r].u, now) /\ req[r].u.trial_ends_at = NoTime
        /\ req[q].kind = "quota" /\ req[q].res.remaining = 1
        /\ req[q].res.used = PLAN_QUOTAS[req[r].u.plan] - 1
        /\ req[r].res.detail = "QUOTA_EXCEEDED"
        /\ req[r].res.used = PLAN_QUOTAS[req[r].u.plan]
        /\ matches[<<Tenant(req[r].u), InitNow>>] = PLAN_QUOTAS[req[r].u.plan] - 1
        /\ matches[<<Tenant(req[r].u), InitNow + 1>>] = 1

\* C9: deleting a record of the current window does not lower the usage the
\* gate and quota-status apply to the tenant of a subscribed subject.
C9_NoRefundOnDelete ==
    [][\A r \in Req :
        (req'[r] # req[r] /\ req'[r].res.outcome = "Deleted" /\ PaidSubject(user, now))
        => Used(matches', req'[r].club, now) >= Used(matches, req'[r].club, now)]_vars

\* C10: a create-match request the gate denies creates no record and
\* leaves the committed user row and the tenants as they were.
C10_DenyPersistsNothing ==
    [][\A r \in Req :
        (GateStep(r) /\ req'[r].res.outcome = "Deny")
        => (/\ req'[r].pc = "done"
            /\ matches' = matches
            /\ user' = user
            /\ clubs' = clubs)]_vars

\* C10 witness: a request was denied while its session held pending writes.
C10_Witness ==
    \E r \in Req :
        /\ req[r].kind = "create" /\ req[r].pc = "done"
        /\ req[r].res.outcome = "Deny"
        /\ req[r].dirty # {}

\* Step in which request slot r serves GET /matches/quota.
QuotaStep(r) ==
    /\ Begin(r)
    /\ req'[r].kind = "quota"
    /\ \A q \in Req \ {r} : req'[q] = req[q]

\* The decision the gate takes for a request that loads the committed row u.
Decision(u, t, cl, m) ==
    check_and_consume_quota([IdleReq EXCEPT !.u = u], t, cl, m).res

\* C11: GET quota-status changes no field of the committed subject, creates
\* no tenant and no record, and leaves the decision of a later gate call as
\* it was.
C11_QuotaStatusReadOnly ==
    [][\A r \in Req :
        QuotaStep(r)
        => (/\ user' = user
            /\ clubs' = clubs
            /\ matches' = matches
            /\ Decision(user', now', clubs', matches')
                 = Decision(user, now, clubs, matches))]_vars

\* C11 witness: quota-status was served to a subscribed subject attached to
\* no club and without solo club, so that its session created the club and
\* attached the user; neither is in the store.
C11_Witness ==
    \E r \in Req :
        /\ req[r].kind = "quota" /\ req[r].pc = "done"
        /\ req[r].newClub /\ "club_id" \in req[r].dirty
        /\ req[r].res.plan \in {"COACH", "CLUB"}
        /\ user.club_id = Null /\ Uid \notin clubs

\* C12: quota-status answers with the trial shape exactly when the gate
\* decides the subject under the trial rule, and with the plan shape exactly
\* when the gate decides it under the monthly rule, with the plan, quota and
\* used values the gate applies.
C12_StatusMatchesGate ==
    [][\A r \in Req :
        QuotaStep(r)
        => LET g == Decision(user, now, clubs, matches)
               q == req'[r].res
           IN  /\ (q.plan = "TRIAL") <=> (g.exit = "trial")
               /\ (q.plan \in {"COACH", "CLUB"}) <=> (g.exit \in {"COACH", "CLUB"})
               /\ (g.exit \in {"COACH", "CLUB"})
                    => (q.plan = g.plan /\ q.quota = g.quota /\ q.used = g.used)]_vars

\* C13: over create-match requests, billing deliveries, confirm-plan,
\* trial-status, cancel-subscription and the admin's plan update, the
\* committed trial_match_used never goes from true back to false.
C13_TrialFlagMonotonic ==
    [][user.trial_match_used => user'.trial_match_used]_vars

\* C13 witness: the gate set the flag for a request that loaded it false,
\* the subscription was deleted afterwards, and the flag is still set.
C13_Witness ==
    /\ user.trial_match_used
    /\ \E r \in Req : /\ Created(r) /\ req[r].res.exit = "trial"
                      /\ "trial_match_used" \in req[r].dirty
    /\ lastEvent.type = "customer.subscription.deleted"
    /\ by_customer(user, lastEvent.customer)
    /\ user.stripe_subscription_id = Null

\* C14: the gate denies a non-superadmin subject whose plan is unset with
\* NO_ACTIVE_PLAN whatever its subscription id, trial window, trial flag and
\* usage, before any trial or monthly rule has read or written anything.
C14_MissingPlan ==
    \A r \in Req :
        (/\ req[r].kind = "create" /\ req[r].pc \in {"staged", "done", "failed"}
         /\ ~req[r].u.is_superadmin /\ req[r].u.plan = Null)
        => (/\ req[r].res.outcome = "Deny"
            /\ req[r].res.detail = "NO_ACTIVE_PLAN"
            /\ req[r].pc = "done"
            /\ req[r].dirty = {}
            /\ req[r].res.used = -1)

\* C14 witness: a plan-less subject without subscription whose trial was
\* never started nor used was denied with NO_ACTIVE_PLAN.
C14_Witness ==
    \E r \in Req :
        /\ req[r].kind = "create" /\ req[r].pc = "done"
        /\ req[r].res.detail = "NO_ACTIVE_PLAN"
        /\ ~req[r].u.is_superadmin /\ req[r].u.plan = Null
        /\ req[r].u.stripe_subscription_id = Null
        /\ req[r].u.trial_ends_at = NoTime /\ ~req[r].u.trial_match_used

\* C15: the gate decides a non-superadmin subject with a plan, a
\* subscription id and now < trial_ends_at under the trial rule: allowed,
\* consuming the flag, exactly when trial_match_used is false, denied with
\* TRIAL_EXHAUSTED otherwise, and never admitted under the plan's ceiling.
C15_TrialWithCard ==
    [][\A r \in Req :
        (/\ GateStep(r)
         /\ ~req[r].u.is_superadmin
         /\ req[r].u.plan \in {"COACH", "CLUB"}
         /\ req[r].u.stripe_subscription_id # Null
         /\ req[r].u.trial_ends_at # NoTime /\ now < req[r].u.trial_ends_at)
        => IF req[r].u.trial_match_used
           THEN /\ req'[r].res.outcome = "Deny"
                /\ req'[r].res.detail = "TRIAL_EXHAUSTED"
           ELSE /\ req'[r].res.outcome = "Allow"
                /\ req'[r].res.exit = "trial"
                /\ req'[r].u.trial_match_used]_vars

\* C16: the gate denies a non-superadmin subject with a plan, no
\* subscription id and no trial_ends_at or now >= trial_ends_at with
\* NO_SUBSCRIPTION, and grants it no record.
C16_NoSubscriptionNoTrial ==
    [][\A r \in Req :
        (/\ GateStep(r)
         /\ ~req[r].u.is_superadmin
         /\ req[r].u.plan \in {"COACH", "CLUB"}
         /\ req[r].u.stripe_subscription_id = Null
         /\ req[r].u.trial_ends_at = NoTime \/ now >= req[r].u.trial_ends_at)
        => (/\ req'[r].res.outcome = "Deny"
            /\ req'[r].res.detail = "NO_SUBSCRIPTION"
            /\ req'[r].pc = "done")]_vars

\* C17: plan and subscription id of the committed subject change only in a
\* billing delivery, and trial_match_used changes only in the commit of a
\* create-match request the gate admitted.
C17_SingleWriter ==
    [][/\ (\/ user'.plan # user.plan
           \/ user'.stripe_subscription_id # user.stripe_subscription_id)
          => (/\ lastEvent' # NoEvent
              /\ user' = stripe_webhook(user, lastEvent'))
       /\ (user'.trial_match_used # user.trial_match_used)
          => \E r \in Req : /\ req[r].pc = "staged" /\ req'[r].pc = "done"
                            /\ req[r].res.outcome = "Allow"]_vars

\* The window the paid-period rule is to count in: the subject's billing
\* period when both ends are present, else the calendar month of t.
BillingWindow(u, t) ==
    IF u.current_period_start # NoTime /\ u.current_period_end # NoTime
    THEN [start |-> u.current_period_start, end |-> u.current_period_end]
    ELSE get_current_month_range(t)

C19_BoundedOverAdmission ==
    PaidSubject(user, now)
    => Used(matches, Tenant(user), now) <= PLAN_QUOTAS[user.plan] + 1

\* C20: a SubscriptionDeleted delivery for the subject's customer clears
\* the subscription id and marks the subject inactive, and leaves
\* trial_ends_at, trial_match_used and plan as they were.
C20_SubscriptionDeleted ==
    [][(/\ lastEvent'.type = "customer.subscription.deleted"
        /\ <<lastEvent, repeated>>' # <<lastEvent, repeated>>
        /\ by_customer(user, lastEvent'.customer))
       => (/\ user'.stripe_subscription_id = Null
           /\ ~user'.is_active
           /\ user'.trial_ends_at = user.trial_ends_at
           /\ user'.trial_match_used = user.trial_match_used
           /\ user'.plan = user.plan)]_vars

\* C20 witness: the subscription of a subject with a used trial and a trial
\* end was deleted; the subject is inactive without subscription id and
\* still has both.
C20_Witness ==
    /\ lastEvent.type = "customer.subscription.deleted"
    /\ by_customer(user, lastEvent.customer)
    /\ user.stripe_subscription_id = Null /\ ~user.is_active
    /\ user.trial_match_used /\ user.trial_ends_at # NoTime
    /\ user.plan = "CLUB"

\* Step in which a billing event is delivered; lastEvent' is the event.
DeliveryStep ==
    /\ lastEvent' # NoEvent
    /\ <<lastEvent, repeated>>' # <<lastEvent, repeated>>

\* C21: an InvoicePaymentFailed delivery for the subject's customer marks
\* the subject inactive and changes no other field.
C21_PaymentFailed ==
    [][(/\ DeliveryStep
        /\ lastEvent'.type = "invoice.payment_failed"
        /\ by_customer(user, lastEvent'.customer))
       => user' = [user EXCEPT !.is_active = FALSE]]_vars

\* C21 witness: a payment failed for a subscribed CLUB subject with a used
\* trial; it is inactive and keeps plan, subscription id and trial fields.
C21_Witness ==
    /\ lastEvent.type = "invoice.payment_failed"
    /\ by_customer(user, lastEvent.customer)
    /\ ~user.is_active
    /\ user.plan = "CLUB" /\ user.stripe_subscription_id = "sub_1"
    /\ user.trial_match_used /\ user.trial_ends_at # NoTime

\* C22: a SubscriptionUpdated delivery for the subject's customer sets the
\* active flag to whether the status is active or trialing, sets the plan
\* to the label of the event when it is COACH or CLUB, and changes no
\* other field.
C22_SubscriptionUpdated ==
    [][(/\ DeliveryStep
        /\ lastEvent'.type = "customer.subscription.updated"
        /\ by_customer(user, lastEvent'.customer))
       => LET e == lastEvent'
          IN  /\ user'.is_active <=> e.status \in {"active", "trialing"}
              /\ user'.plan = IF e.plan \in {"COACH", "CLUB"} THEN e.plan
                              ELSE user.plan
              /\ user' = [user EXCEPT !.is_active = user'.is_active,
                                      !.plan = user'.plan]]_vars

\* C22 witness: an update with status trialing and label CLUB was applied
\* to the subject: it is active with plan CLUB and keeps its subscription id.
C22_Witness ==
    /\ lastEvent.type = "customer.subscription.updated"
    /\ by_customer(user, lastEvent.customer)
    /\ lastEvent.status = "trialing" /\ lastEvent.plan = "CLUB"
    /\ user.is_active /\ user.plan = "CLUB"
    /\ user.stripe_subscription_id = "sub_1"

\* C23: an InvoicePaymentSucceeded delivery for the subject's customer
\* marks the subject active when its billing reason is subscription_cycle
\* or subscription_create and changes nothing with any other reason; it
\* never changes another field.
C23_PaymentSucceeded ==
    [][(/\ DeliveryStep
        /\ lastEvent'.type = "invoice.payment_succeeded"
        /\ by_customer(user, lastEvent'.customer))
       => IF lastEvent'.billing_reason \in {"subscription_cycle", "subscription_create"}
          THEN user' = [user EXCEPT !.is_active = TRUE]
          ELSE user' = user]_vars

\* C23 witness: a payment with another billing reason succeeded for a
\* subject that a failed payment had made inactive; it is still inactive.
C23_Witness ==
    /\ lastEvent.type = "invoice.payment_succeeded"
    /\ lastEvent.billing_reason = "manual"
    /\ by_customer(user, lastEvent.customer)
    /\ ~user.is_active /\ user.stripe_subscription_id = "sub_1"

\* The event names no user of the store: its user id (CheckoutCompleted) or
\* its customer id (the other types) is not the subject's.
UnknownSubject(u, e) ==
    IF e.type = "checkout.session.completed" THEN e.user_id # u.id
    ELSE u.stripe_customer_id = Null \/ u.stripe_customer_id # e.customer

\* C24: a delivery whose subject is not found changes no user and is
\* answered with success, for every event type.
C24_UnknownSubject ==
    [][(DeliveryStep /\ UnknownSubject(user, lastEvent'))
       => (/\ user' = user
           /\ webhook_response(user, lastEvent').status = "success")]_vars

\* C24 witness: a SubscriptionDeleted for another customer was delivered;
\* the subject still has its subscription id and is active.
C24_Witness ==
    /\ lastEvent.type = "customer.subscription.deleted"
    /\ lastEvent.customer = "cus_x"
    /\ user.stripe_customer_id = "cus_1" /\ user.stripe_subscription_id = "sub_1"
    /\ user.is_active

\* C25: an event that was applied and is delivered again after another
\* event was applied leaves the subject as it is: after the deliveries
\* e1, e2, a further delivery of e1 changes nothing.
C25_RedeliveryAfterOthers ==
    [][(/\ DeliveryStep
        /\ lastEvent # NoEvent
        /\ lastEvent' # lastEvent)
       => stripe_webhook(user', lastEvent) = user']_vars

\* C26: over create-match requests, quota-status reads, deletions and clock
\* advances, a non-superadmin subject with trial_match_used set and no
\* subscription id stays so, and every gate call that loads it is denied,
\* with TRIAL_EXHAUSTED when it has a plan, and creates no record.
C26_ExhaustedAbsorbing ==
    [][/\ \A r \in Req :
            (/\ GateStep(r)
             /\ ~req[r].u.is_superadmin
             /\ req[r].u.trial_match_used
             /\ req[r].u.stripe_subscription_id = Null)
            => (/\ req'[r].res.outcome = "Deny"
                /\ req[r].u.plan # Null => req'[r].res.detail = "TRIAL_EXHAUSTED"
                /\ req'[r].pc = "done"
                /\ matches' = matches)
       /\ (user.trial_match_used /\ user.stripe_subscription_id = Null)
            => (user'.trial_match_used /\ user'.stripe_subscription_id = Null)]_vars

\* C26 witness: the gate started the trial of a subject and admitted its
\* one record; after the clock advanced to the last day a further request
\* of that subject was denied with TRIAL_EXHAUSTED.
C26_Witness ==
    \E r \in Req :
        /\ req[r].kind = "create" /\ req[r].pc = "done"
        /\ req[r].res.detail = "TRIAL_EXHAUSTED"
        /\ req[r].res.at = MaxTime
        /\ ~user.is_superadmin /\ user.stripe_subscription_id = Null
        /\ user.trial_match_used
        /\ user.trial_ends_at = InitNow + TRIAL_DAY_LIMIT
        /\ matches[<<Tenant(user), InitNow>>] = 1

C28_TrialGrantedOnce ==
    [][\A r \in Req :
        (/\ req'[r].res.detail = "trial_period_days"
         /\ req[r].res.detail # "trial_period_days")
        => (/\ req'[r].res.plan = "COACH"
            /\ user.trial_ends_at = NoTime
            /\ \A q \in Req \ {r} : req[q].res.detail # "trial_period_days")]_vars

\* C29: tenant resolution is get-or-create and stable.  When POST /matches
\* passes the gate, the tenant it resolved is the loaded user's club, or the
\* user's own id when the user had none; in that case the session attaches
\* the user to it and inserts the club row only if none is visible.  A monthly
\* exit counted the records of that same tenant.  The commit adds one record
\* under that tenant, adds at most the solo club to `clubs`, and the committed
\* user is attached to the tenant the session resolved.  No step adds any
\* club other than the one whose id is the user's id.
C29_TenantStable ==
    [][/\ clubs' \subseteq clubs \cup {Uid}
       /\ \A r \in Req :
            /\ (GateStep(r) /\ req'[r].kind = "create" /\ req'[r].res.outcome = "Allow")
                => /\ req'[r].club = Tenant(req[r].u)
                   /\ req[r].u.club_id = Null
                        => /\ req'[r].u.club_id = req[r].u.id
                           /\ "club_id" \in req'[r].dirty
                           /\ req'[r].newClub <=> (req[r].u.id \notin clubs)
                   /\ req[r].u.club_id # Null
                        => ~req'[r].newClub /\ "club_id" \notin req'[r].dirty
                   /\ req'[r].res.exit \in {"COACH", "CLUB"}
                        => req'[r].res.used = Used(matches, req'[r].club, now)
            /\ (req[r].kind = "create" /\ req[r].pc = "staged" /\ req'[r].pc = "done")
                => /\ matches' = [matches EXCEPT ![<<req[r].club, now>>] = @ + 1]
                   /\ clubs' = IF req[r].newClub THEN clubs \cup {req[r].club} ELSE clubs
                   /\ req[r].newClub => req[r].club = Uid /\ Uid \notin clubs
                   /\ "club_id" \in req[r].dirty => user'.club_id = req[r].club]_vars

\* A user without a club had two requests in flight that both resolved the
\* solo club: one committed it with its record, the other's insert of the
\* same club id failed, and the user is attached to the one club.
C29_Witness ==
    \E r \in Req, q \in Req :
        /\ Created(r) /\ req[r].newClub /\ req[r].club = Uid
        /\ req[r].res.exit \in {"COACH", "CLUB"}
        /\ req[q].pc = "failed" /\ req[q].newClub /\ req[q].club = Uid
        /\ Uid \in clubs /\ user.club_id = Uid
        /\ matches[<<Uid, now>>] > 0

====
